---- MODULE Spec2Model ----
(***************************************************************************)
(* Model of the newsletterdigest credential store (package credentials:    *)
(* encrypt/decrypt envelopes, credential and token records, the OAuth      *)
(* token lifecycle of GetOAuthClient), of the Chat retry loop of the LLM   *)
(* clients, and of the digest run around them.                             *)
(*                                                                         *)
(* The specifications share the variables:                                 *)
(*   SpecSeal  - encrypt / tamper / truncate / decrypt on one envelope     *)
(*   Spec      - the token lifecycle of GetOAuthClient                     *)
(*   SpecStore - puts, loads and Cleanup on the two records                *)
(*   SpecPerm  - the same on a directory and record found in place         *)
(*   SpecChat  - the retry loop of Client.Chat                             *)
(*   SpecFresh - the salt and nonce draws of successive encrypt calls      *)
(*   SpecRun   - App.run: fetch, ProcessNewsletters, send, mark as read    *)
(*   SpecEnv   - ValidateEnvironment                                       *)
(*   SpecCache - fetchHashtagPosts and its cache files                     *)
(*   SpecHtml  - parseTextToHTML                                           *)
(***************************************************************************)
EXTENDS Integers, Sequences, FiniteSets, TLC

VARIABLES
    \* ---- SpecSeal: one envelope under test
    sealPass,     \* passphrase of the Store that called encrypt
    plain,        \* the data handed to encrypt
    envelope,     \* the bytes under test (result of encrypt, then possibly altered)
    altered,      \* "no" | "salt" | "nonce" | "ciphertext" | "tag" | "truncated"
    openPass,     \* passphrase of the Store that called decrypt
    opened,       \* result of decrypt: [err, data], or NotYet
    sealPc,       \* "new" | "sealed" | "opened" | "off"
    rng,          \* the <<salt, nonce>> pairs crypto/rand can deliver in this run
    sealLog       \* the encrypt calls made so far, oldest first:
                  \* [plain, salt, nonce, env]

VARIABLES
    \* ---- SpecChat: one call of Client.Chat
    apiKey,       \* the API key environment variable ("" when unset)
    chatPc,       \* "idle" | "do" | "sleep" | "done" | "off"
    attempt,      \* the loop variable of the retry loop
    doCalls,      \* number of http.DefaultClient.Do calls made by the call
    sleeps,       \* number of time.Sleep calls made by the call
    lastSleep,    \* duration of the latest time.Sleep, in milliseconds
    lastErr,      \* the local lastErr
    observed,     \* what each attempt observed, oldest first
    bodyUnread,   \* the request's body reader still holds the whole body
    sentFull,     \* per attempt: the attempt had the whole body to send
    ctxDone,      \* the caller's context is cancelled
    afterCancel,  \* Do and Sleep calls begun after the context was cancelled
    chatRet       \* what the call returned: [text, err]

VARIABLES
    \* ---- Spec: the records of one base directory and the token lifecycle
    credFile,     \* credentials.enc: [exists, bytes]
    tokFile,      \* token.enc: [exists, bytes]
    clock,        \* wall-clock time, in seconds
    issued,       \* number of tokens the Authorization Server has issued
    pc,           \* position of the running Store operation, "idle" when none
    gPass,        \* passphrase of the Store running the operation
    tok,          \* GetOAuthClient's tok / newToken
    tokFrom,      \* where tok came from: "none" | "loaded" | "web" | "refreshed"
    wTarget,      \* os.WriteFile in progress: "cred" | "tok" | "none"
    wData,        \* os.WriteFile in progress: the bytes to write
    wPlain,       \* the plaintext those bytes were sealed from
    wNext,        \* what the operation does once the write is done
    hasClient,    \* an *http.Client returned by GetOAuthClient is alive
    clientTok,    \* the token held by that client's token source
    ret,          \* what the last finished operation returned
    mode,         \* permission bits of the base directory and of the record
                  \* files: [dir, cred, tok], 0 for a file that does not exist
    refreshTries, \* requests the latest GetOAuthClient sent to refresh its token
    durable       \* per record: <<passphrase, plaintext>> of the put that
                  \* succeeded last, NoPut once the record is written or removed

storeVars == <<credFile, tokFile, clock, issued, pc, gPass, tok, tokFrom,
               wTarget, wData, wPlain, wNext, hasClient, clientTok, ret,
               mode, refreshTries, durable>>
sealVars == <<sealPass, plain, envelope, altered, openPass, opened, sealPc, rng,
              sealLog>>
chatVars == <<apiKey, chatPc, attempt, doCalls, sleeps, lastSleep, lastErr, observed,
              bodyUnread, sentFull, ctxDone, afterCancel, chatRet>>

VARIABLES
    \* ---- SpecRun: one run of the application (App.run)
    dryRunEnv,    \* the value of the DRY_RUN environment variable ("" when unset)
    cfg,          \* config.Load(): [DryRun, LinkedInOnlyMode, FetchLinkedInHashtags]
    runPc,        \* "fetch" | "summarize" | "linkedin" | "synthesize" | "send"
                  \* | "mark" | "done" | "off"
    newsletters,  \* what FetchNewsletters returned: message ids, in order
    idx,          \* position of ProcessNewsletters' loop over newsletters
    sumOk,        \* ids whose summarizeSingle returned no error
    perSummaries, \* ProcessNewsletters' perSummaries, as the ids summarized
    processedItems,    \* ProcessNewsletters' processedItems, as ids
    linkedInSummaries, \* number of LinkedIn summaries produced
    procRet,      \* what ProcessNewsletters returned: [html, items, err]
    sent,         \* SendHTML has returned without error
    markRequests, \* the BatchModify requests removing UNREAD, each its ids
    markErr,      \* the last such request failed
    runRet        \* what App.run returned, "running" before

runVars == <<dryRunEnv, cfg, runPc, newsletters, idx, sumOk, perSummaries,
             processedItems, linkedInSummaries, procRet, sent, markRequests,
             markErr, runRet>>

VARIABLES
    \* ---- SpecEnv: one call of credentials.ValidateEnvironment
    environ,        \* the process environment: variable name -> value ("" = unset)
    envPc,        \* "call" | "done" | "off"
    envRet        \* what ValidateEnvironment returned: [err, name]

envVars == <<environ, envPc, envRet>>

VARIABLES
    \* ---- SpecCache: ContentFetcher.fetchHashtagPosts and its cache files
    cacheFile,     \* hashtag -> the file forumscout_<hashtag>.json in cacheDir
    wallClock,     \* the clock, in half hours
    forumScoutKey, \* FORUMSCOUT_API_KEY ("" = unset)
    lastFetch      \* the last fetchHashtagPosts call: what it did and returned

cacheVars == <<cacheFile, wallClock, forumScoutKey, lastFetch>>

VARIABLES
    \* ---- SpecHtml: one call of Processor.parseTextToHTML
    text,          \* the argument, as its lines (strings.Split(text, "\n"))
    htmlPc,        \* "call" | "done" | "off"
    htmlOut        \* what was written to the builder, piece by piece

htmlVars == <<text, htmlPc, htmlOut>>

appVars == <<runVars, envVars, cacheVars, htmlVars>>

\* everything but the variables of App.run
outsideRun == <<sealVars, chatVars, storeVars, envVars, cacheVars, htmlVars>>

\* everything but the variables of ValidateEnvironment
outsideEnv == <<sealVars, chatVars, storeVars, runVars, cacheVars, htmlVars>>

\* everything but the variables of the hashtag cache
outsideCache == <<sealVars, chatVars, storeVars, runVars, envVars, htmlVars>>

\* everything but the variables of parseTextToHTML
outsideHtml == <<sealVars, chatVars, storeVars, runVars, envVars, cacheVars>>

vars == <<sealVars, chatVars, storeVars, appVars>>

(***************************************************************************)
(* Bounds of the model                                                     *)
(***************************************************************************)
MaxPlainLen == 2
NumPass == 2
MaxClock == 3
MaxIssued == 2
MaxSeals == 2
MaxMail == 2

(***************************************************************************)
(* Bytes                                                                   *)
(***************************************************************************)
ByteMod == 256

Pow2(b) == 2 ^ b

\* x with bit b (0..7) inverted
FlipBit(x, b) == IF (x \div Pow2(b)) % 2 = 1 THEN x - Pow2(b) ELSE x + Pow2(b)

NotYet == [err |-> "not called", data |-> <<>>]

(***************************************************************************)
(* Inputs                                                                  *)
(***************************************************************************)
\* passphrases: <<2>>, <<1>>, <<2,2>>, <<1,1>>, ...  (never empty: NewStore
\* rejects the empty passphrase)
PassOf(i) == [j \in 1 .. (1 + ((i - 1) \div 2)) |-> 1 + (i % 2)]
Passphrases == {PassOf(i) : i \in 1 .. NumPass}

PlainBytes == {0, 255}
Plaintexts == UNION {[1 .. n -> PlainBytes] : n \in 0 .. MaxPlainLen}

(***************************************************************************)
(* Envelope layout constants                                               *)
(***************************************************************************)
SaltLen == 16
KeyLen == 32
NonceSize == 12
TagSize == 16

\* the shortest envelope encrypt produces: salt, nonce and tag
MinEnvelopeLen == SaltLen + NonceSize + TagSize

\* what crypto/rand may deliver for a salt and for a nonce
Salts == {[i \in 1 .. SaltLen |-> (17 * i) % ByteMod],
          [i \in 1 .. SaltLen |-> (255 - i) % ByteMod]}
Nonces == {[i \in 1 .. NonceSize |-> (3 * i + 1) % ByteMod],
           [i \in 1 .. NonceSize |-> (200 + i) % ByteMod]}

(***************************************************************************)
(* deriveKey: PBKDF2(passphrase, salt, 100000, 32, SHA-256).  The key      *)
(* stretching is abstracted to a 32-byte mixing of passphrase and salt     *)
(* that, like PBKDF2, gives different keys for different passphrases and   *)
(* for different salts.                                                    *)
(***************************************************************************)
deriveKey_IgnoresPassphrase(passphrase, salt) ==
    [i \in 1 .. KeyLen |-> salt[((i - 1) % SaltLen) + 1]]

deriveKey(passphrase, salt) ==
    [i \in 1 .. KeyLen |->
        (salt[((i - 1) % SaltLen) + 1]
         + 7 * Len(passphrase)
         + i * passphrase[((i - 1) % Len(passphrase)) + 1]) % ByteMod]

(***************************************************************************)
(* AES-GCM under a 32-byte key: a keystream cipher plus a 16-byte tag over *)
(* key, nonce and ciphertext.  Seal(dst, nonce, plaintext, nil) appends    *)
(* ciphertext and tag to dst; Open authenticates, then decrypts.           *)
(***************************************************************************)
gcmKeystream(key, nonce, i) ==
    (key[((i - 1) % KeyLen) + 1] + nonce[((i - 1) % NonceSize) + 1] + i) % ByteMod

RECURSIVE gcmFold(_, _)
gcmFold(ct, i) == IF i > Len(ct) THEN 0 ELSE ct[i] + gcmFold(ct, i + TagSize)

gcmTag(key, nonce, ct) ==
    [j \in 1 .. TagSize |->
        (key[j] + 2 * key[TagSize + j]
         + 5 * nonce[((j - 1) % NonceSize) + 1]
         + 7 * gcmFold(ct, j)
         + Len(ct)) % ByteMod]

gcmSeal(dst, key, nonce, plaintext) ==
    LET ct == [i \in 1 .. Len(plaintext) |->
                  (plaintext[i] + gcmKeystream(key, nonce, i)) % ByteMod]
    IN dst \o ct \o gcmTag(key, nonce, ct)

gcmOpen_NoTagCheck(key, nonce, ciphertext) ==
    IF Len(ciphertext) < TagSize
    THEN [err |-> "cipher: message authentication failed", data |-> <<>>]
    ELSE LET n == Len(ciphertext) - TagSize
             ct == SubSeq(ciphertext, 1, n)
         IN [err |-> "",
             data |-> [i \in 1 .. n |->
                         (ct[i] + ByteMod - gcmKeystream(key, nonce, i)) % ByteMod]]

gcmOpen(key, nonce, ciphertext) ==
    IF Len(ciphertext) < TagSize
    THEN [err |-> "cipher: message authentication failed", data |-> <<>>]
    ELSE LET n == Len(ciphertext) - TagSize
             ct == SubSeq(ciphertext, 1, n)
             tag == SubSeq(ciphertext, n + 1, Len(ciphertext))
         IN IF tag # gcmTag(key, nonce, ct)
            THEN [err |-> "cipher: message authentication failed", data |-> <<>>]
            ELSE [err |-> "",
                  data |-> [i \in 1 .. n |->
                              (ct[i] + ByteMod - gcmKeystream(key, nonce, i)) % ByteMod]]

(***************************************************************************)
(* Store.encrypt: salt, then gcm.Seal(nonce, nonce, data, nil)             *)
(***************************************************************************)
encrypt_NonceFirst(passphrase, data, salt, nonce) ==
    LET key == deriveKey(passphrase, salt)
        ciphertext == gcmSeal(nonce, key, nonce, data)
    IN SubSeq(ciphertext, 1, NonceSize) \o salt
          \o SubSeq(ciphertext, NonceSize + 1, Len(ciphertext))

encrypt_StaticNonce(passphrase, data, salt, nonce) ==
    LET key == deriveKey(passphrase, salt)
        zero == [i \in 1 .. NonceSize |-> 0]
        ciphertext == gcmSeal(zero, key, zero, data)
    IN salt \o ciphertext

encrypt(passphrase, data, salt, nonce) ==
    LET key == deriveKey(passphrase, salt)
        ciphertext == gcmSeal(nonce, key, nonce, data)
    IN salt \o ciphertext

(***************************************************************************)
(* Store.decrypt                                                           *)
(***************************************************************************)
decrypt_NoAuth(passphrase, data) ==
    IF Len(data) < SaltLen
    THEN [err |-> "invalid encrypted data", data |-> <<>>]
    ELSE LET salt == SubSeq(data, 1, SaltLen)
             ciphertext == SubSeq(data, SaltLen + 1, Len(data))
             key == deriveKey(passphrase, salt)
         IN IF Len(ciphertext) < NonceSize
            THEN [err |-> "ciphertext too short", data |-> <<>>]
            ELSE LET nonce == SubSeq(ciphertext, 1, NonceSize)
                     rest == SubSeq(ciphertext, NonceSize + 1, Len(ciphertext))
                     r == gcmOpen_NoTagCheck(key, nonce, rest)
                 IN IF r.err # ""
                    THEN [err |-> "decrypt", data |-> <<>>]
                    ELSE [err |-> "", data |-> r.data]

decrypt(passphrase, data) ==
    IF Len(data) < SaltLen
    THEN [err |-> "invalid encrypted data", data |-> <<>>]
    ELSE LET salt == SubSeq(data, 1, SaltLen)
             ciphertext == SubSeq(data, SaltLen + 1, Len(data))
             key == deriveKey(passphrase, salt)
         IN IF Len(ciphertext) < NonceSize
            THEN [err |-> "ciphertext too short", data |-> <<>>]
            ELSE LET nonce == SubSeq(ciphertext, 1, NonceSize)
                     rest == SubSeq(ciphertext, NonceSize + 1, Len(ciphertext))
                     r == gcmOpen(key, nonce, rest)
                 IN IF r.err # ""
                    THEN [err |-> "decrypt", data |-> <<>>]
                    ELSE [err |-> "", data |-> r.data]

(***************************************************************************)
(* SpecSeal: a Store seals one plaintext; the envelope may then be         *)
(* altered on disk; a Store (same or other passphrase) opens it.           *)
(***************************************************************************)
SealInit ==
    /\ rng = Salts \X Nonces
    /\ sealPass \in Passphrases
    /\ plain = <<>>
    /\ envelope = <<>>
    /\ altered = "no"
    /\ openPass = <<>>
    /\ opened = NotYet
    /\ sealPc = "new"
    /\ sealLog = <<>>

\* no envelope under test; the random source as given
SealOff(pairs) ==
    /\ rng = pairs
    /\ sealPass = <<>>
    /\ plain = <<>>
    /\ envelope = <<>>
    /\ altered = "no"
    /\ openPass = <<>>
    /\ opened = NotYet
    /\ sealPc = "off"
    /\ sealLog = <<>>

Encrypt ==
    /\ sealPc = "new"
    /\ \E p \in Plaintexts, r \in rng :
          /\ plain' = p
          /\ envelope' = encrypt(sealPass, p, r[1], r[2])
    /\ sealPc' = "sealed"
    /\ UNCHANGED <<sealPass, altered, openPass, opened, rng>>
    /\ UNCHANGED <<chatVars, storeVars, appVars>>
    /\ UNCHANGED sealLog

\* the region of the envelope byte i lies in
RegionOf(env, i) ==
    IF i <= SaltLen THEN "salt"
    ELSE IF i <= SaltLen + NonceSize THEN "nonce"
    ELSE IF i <= Len(env) - TagSize THEN "ciphertext"
    ELSE "tag"

\* one bit of the stored envelope is inverted
FlipOneBit ==
    /\ sealPc = "sealed"
    /\ altered = "no"
    /\ \E i \in 1 .. Len(envelope), b \in 0 .. 7 :
          /\ envelope' = [envelope EXCEPT ![i] = FlipBit(@, b)]
          /\ altered' = RegionOf(envelope, i)
    /\ UNCHANGED <<sealPass, plain, openPass, opened, sealPc, rng>>
    /\ UNCHANGED <<chatVars, storeVars, appVars>>
    /\ UNCHANGED sealLog

\* the stored envelope loses its tail
Truncate ==
    /\ sealPc = "sealed"
    /\ altered = "no"
    /\ \E n \in 0 .. (Len(envelope) - 1) :
          envelope' = SubSeq(envelope, 1, n)
    /\ altered' = "truncated"
    /\ UNCHANGED <<sealPass, plain, openPass, opened, sealPc, rng>>
    /\ UNCHANGED <<chatVars, storeVars, appVars>>
    /\ UNCHANGED sealLog

Decrypt ==
    /\ sealPc = "sealed"
    /\ \E k \in Passphrases :
          /\ openPass' = k
          /\ opened' = decrypt(k, envelope)
    /\ sealPc' = "opened"
    /\ UNCHANGED <<sealPass, plain, envelope, altered, rng>>
    /\ UNCHANGED <<chatVars, storeVars, appVars>>
    /\ UNCHANGED sealLog

NextSeal == Encrypt \/ FlipOneBit \/ Truncate \/ Decrypt

(***************************************************************************)
(* SpecFresh: one Store makes several encrypt calls.  Each call reads its  *)
(* salt and its nonce from crypto/rand, which may deliver any of its       *)
(* values at any call.                                                     *)
(***************************************************************************)
FreshInit ==
    /\ rng = Salts \X Nonces
    /\ sealPass \in Passphrases
    /\ plain = <<>>
    /\ envelope = <<>>
    /\ altered = "no"
    /\ openPass = <<>>
    /\ opened = NotYet
    /\ sealPc = "log"
    /\ sealLog = <<>>

EncryptCall ==
    /\ sealPc = "log"
    /\ Len(sealLog) < MaxSeals
    /\ \E p \in {q \in Plaintexts : Len(q) <= 1}, r \in rng :
          sealLog' = Append(sealLog,
                            [plain |-> p, salt |-> r[1], nonce |-> r[2],
                             env |-> encrypt(sealPass, p, r[1], r[2])])
    /\ UNCHANGED <<sealPass, plain, envelope, altered, openPass, opened, sealPc, rng>>
    /\ UNCHANGED <<chatVars, storeVars, appVars>>

NextFresh == EncryptCall


(***************************************************************************)
(* C1  Round-trip: decrypt on the Store that encrypted a non-empty         *)
(* plaintext p succeeds and returns exactly p.                             *)
(***************************************************************************)
RoundTrip ==
    (sealPc = "opened" /\ altered = "no" /\ openPass = sealPass /\ plain # <<>>)
        => (opened.err = "" /\ opened.data = plain)

RoundTripWitness ==
    /\ sealPc = "opened" /\ altered = "no" /\ openPass = sealPass
    /\ Len(plain) = MaxPlainLen /\ opened.data = plain

(***************************************************************************)
(* C2  Wrong-key rejection: opening with passphrase k2 an envelope sealed  *)
(* with k1 # k2 returns an error and no plaintext.                         *)
(***************************************************************************)
WrongKeyRejected ==
    (sealPc = "opened" /\ altered = "no" /\ openPass # sealPass)
        => (opened.err # "" /\ opened.data = <<>>)

WrongKeyWitness ==
    /\ sealPc = "opened" /\ altered = "no" /\ openPass # sealPass
    /\ plain # <<>> /\ opened.err = "decrypt"

(***************************************************************************)
(* C3  Tamper detection: after one bit of an envelope produced by encrypt  *)
(* is inverted (salt, nonce, ciphertext or tag), decrypt fails with the    *)
(* authentication error and returns no plaintext.                          *)
(***************************************************************************)
TamperDetected ==
    (sealPc = "opened" /\ altered \in {"salt", "nonce", "ciphertext", "tag"})
        => (opened.err = "decrypt" /\ opened.data = <<>>)

TamperWitness ==
    /\ sealPc = "opened" /\ altered = "ciphertext" /\ openPass = sealPass
    /\ opened.err = "decrypt"

ShortIsMalformed ==
    (sealPc = "opened" /\ Len(envelope) < MinEnvelopeLen)
        => opened.err \in {"invalid encrypted data", "ciphertext too short"}

(***************************************************************************)
(* The records of the base directory                                       *)
(***************************************************************************)
NoFile == [exists |-> FALSE, bytes |-> <<>>]
File(b) == [exists |-> TRUE, bytes |-> b]

\* json.Unmarshal(b, &map[string]interface{}): b is a JSON object.
\* Blobs are abbreviated: "{" = 123, "}" = 125.
isJSONObject(b) == Len(b) >= 2 /\ b[1] = 123 /\ b[Len(b)] = 125

\* json.Unmarshal(b, &v) for a map or a struct v: a JSON object fills v, the
\* literal null (110) leaves v as it is, both without error; anything else
\* is an error
NullJSON == <<110>>

jsonToMap(b) == isJSONObject(b) \/ b = NullJSON

\* google.ConfigFromJSON: the object has an "installed" (105) or "web" (119) entry
isOAuthConfig_AnyObject(b) == isJSONObject(b)

isOAuthConfig(b) == isJSONObject(b) /\ Len(b) = 3 /\ b[2] \in {105, 119}

\* an OAuth client configuration, a JSON object that is none, null, and no
\* JSON
CredBlobs == {<<123, 119, 125>>, <<123, 125>>, NullJSON, <<120>>}

\* oauth2.Token: access token, refresh token (0 = ""), expiry (0 = zero time)
ZeroToken == [access |-> 0, refresh |-> 0, expiry |-> 0]

\* json.Marshal(token)
marshalToken(t) == <<123, t.access, t.refresh, t.expiry, 125>>

\* json.Unmarshal(decrypted, &token): any JSON object parses, unknown or
\* missing fields leave the zero value
unmarshalToken(b) ==
    IF ~jsonToMap(b) THEN [err |-> "unmarshal token", token |-> ZeroToken]
    ELSE IF Len(b) = 5
         THEN [err |-> "", token |-> [access |-> b[2], refresh |-> b[3], expiry |-> b[4]]]
         ELSE [err |-> "", token |-> ZeroToken]

\* oauth2.Token.Valid at time now: an access token is set and the token does
\* not expire within expiryDelta seconds
expiryDelta == 10

tokenValid_NoDelta(t, now) ==
    t.access # 0 /\ ~(t.expiry # 0 /\ t.expiry < now)

tokenValid(t, now) ==
    t.access # 0 /\ ~(t.expiry # 0 /\ t.expiry - expiryDelta < now)

\* expires_in values the Authorization Server may answer with (0: none)
Lifetimes == {0, 1, expiryDelta}

\* the token an exchange or refresh at time now yields
serverToken(n, refresh, lifetime, now) ==
    [access |-> n, refresh |-> refresh,
     expiry |-> IF lifetime = 0 THEN 0 ELSE now + lifetime]

\* tokens a caller hands to StoreToken directly
CallerTokens ==
    {[access |-> 9, refresh |-> 1, expiry |-> expiryDelta + 2],
     [access |-> 9, refresh |-> 0, expiry |-> 2]}

(***************************************************************************)
(* Store.LoadCredentials / Store.LoadToken on the current records          *)
(***************************************************************************)
LoadCredentials_ReadsTokenRecord(passphrase) ==
    IF ~tokFile.exists
    THEN [err |-> "read encrypted credentials", data |-> <<>>]
    ELSE LET d == decrypt(passphrase, tokFile.bytes)
         IN IF d.err # ""
            THEN [err |-> "decrypt credentials", data |-> <<>>]
            ELSE [err |-> "", data |-> d.data]

LoadCredentials(passphrase) ==
    IF ~credFile.exists
    THEN [err |-> "read encrypted credentials", data |-> <<>>]
    ELSE LET d == decrypt(passphrase, credFile.bytes)
         IN IF d.err # ""
            THEN [err |-> "decrypt credentials", data |-> <<>>]
            ELSE [err |-> "", data |-> d.data]

loadTokenFrom(passphrase, file) ==
    IF ~file.exists
    THEN [err |-> "read encrypted token", token |-> ZeroToken]
    ELSE LET d == decrypt(passphrase, file.bytes)
         IN IF d.err # ""
            THEN [err |-> "decrypt token", token |-> ZeroToken]
            ELSE unmarshalToken(d.data)

LoadToken(passphrase) == loadTokenFrom(passphrase, tokFile)

(***************************************************************************)
(* Spec: operations on the records.  Each Store instance is a passphrase;  *)
(* one operation runs at a time.  os.WriteFile is two steps, open with     *)
(* truncation and write, and the process may stop between any two steps.   *)
(***************************************************************************)
NoPut == <<>>

\* os.MkdirAll(baseDir, 0700) and os.WriteFile(path, data, 0600): the
\* permission bits a directory or file they create gets
DirPerm == 448
FilePerm == 384

\* the modes when NewStore made the directory and the puts made the files
ModesOf(cred, token) ==
    [dir |-> DirPerm,
     cred |-> IF cred.exists THEN FilePerm ELSE 0,
     tok |-> IF token.exists THEN FilePerm ELSE 0]

Ret(op, err, data, t, from) ==
    [op |-> op, err |-> err, data |-> data, tok |-> t, from |-> from]

\* the credentials record a setup run left behind, if any
SetupCreds ==
    {NoFile}
    \cup {File(encrypt(PassOf(1), c, r[1], r[2])) :
             c \in {b \in CredBlobs : jsonToMap(b)}, r \in rng}

OAuthInit ==
    /\ credFile \in SetupCreds
    /\ tokFile = NoFile
    /\ clock = 1
    /\ issued = 0
    /\ pc = "idle"
    /\ gPass = <<>>
    /\ tok = ZeroToken
    /\ tokFrom = "none"
    /\ wTarget = "none"
    /\ wData = <<>>
    /\ wPlain = <<>>
    /\ wNext = "none"
    /\ hasClient = FALSE
    /\ clientTok = ZeroToken
    /\ ret = Ret("none", "", <<>>, ZeroToken, "none")
    /\ refreshTries = 0
    /\ durable = [cred |-> NoPut, tok |-> NoPut]
    /\ mode = ModesOf(credFile, tokFile)

StoreInit ==
    /\ credFile = NoFile
    /\ tokFile = NoFile
    /\ clock = 1
    /\ issued = 0
    /\ pc = "idle"
    /\ gPass = <<>>
    /\ tok = ZeroToken
    /\ tokFrom = "none"
    /\ wTarget = "none"
    /\ wData = <<>>
    /\ wPlain = <<>>
    /\ wNext = "none"
    /\ hasClient = FALSE
    /\ clientTok = ZeroToken
    /\ ret = Ret("none", "", <<>>, ZeroToken, "none")
    /\ refreshTries = 0
    /\ durable = [cred |-> NoPut, tok |-> NoPut]
    /\ mode = ModesOf(credFile, tokFile)

\* what NewStore may find: the directory made by an earlier run (0700) or
\* by somebody else (0755), the credentials file made by an earlier put
\* (0600) or put there by other means (0644)
PriorDirModes == {DirPerm, 493}
PriorFileModes == {FilePerm, 420}

PermInit ==
    /\ credFile \in SetupCreds
    /\ tokFile = NoFile
    /\ clock = 1
    /\ issued = 0
    /\ pc = "idle"
    /\ gPass = <<>>
    /\ tok = ZeroToken
    /\ tokFrom = "none"
    /\ wTarget = "none"
    /\ wData = <<>>
    /\ wPlain = <<>>
    /\ wNext = "none"
    /\ hasClient = FALSE
    /\ clientTok = ZeroToken
    /\ ret = Ret("none", "", <<>>, ZeroToken, "none")
    /\ refreshTries = 0
    /\ durable = [cred |-> NoPut, tok |-> NoPut]
    /\ \E d \in PriorDirModes, f \in PriorFileModes :
          mode = [dir |-> d, cred |-> IF credFile.exists THEN f ELSE 0, tok |-> 0]

StoreOff ==
    /\ credFile = NoFile
    /\ tokFile = NoFile
    /\ clock = 1
    /\ issued = 0
    /\ pc = "off"
    /\ gPass = <<>>
    /\ tok = ZeroToken
    /\ tokFrom = "none"
    /\ wTarget = "none"
    /\ wData = <<>>
    /\ wPlain = <<>>
    /\ wNext = "none"
    /\ hasClient = FALSE
    /\ clientTok = ZeroToken
    /\ ret = Ret("none", "", <<>>, ZeroToken, "none")
    /\ refreshTries = 0
    /\ durable = [cred |-> NoPut, tok |-> NoPut]
    /\ mode = ModesOf(credFile, tokFile)

\* the operation in progress ends: its locals are gone
Finish(r) ==
    /\ pc' = "idle"
    /\ gPass' = <<>>
    /\ tok' = ZeroToken
    /\ tokFrom' = "none"
    /\ wTarget' = "none"
    /\ wData' = <<>>
    /\ wPlain' = <<>>
    /\ wNext' = "none"
    /\ ret' = r

\* the operation goes on to os.WriteFile(target, data, 0600)
BeginWrite(passphrase, target, plaintext, data, next) ==
    /\ pc' = "open"
    /\ gPass' = passphrase
    /\ wTarget' = target
    /\ wData' = data
    /\ wPlain' = plaintext
    /\ wNext' = next

\* the operation a pending write belongs to, and the error it wraps a
\* failed write in
opOfWrite(next) ==
    IF next \in {"new", "refreshed"} THEN "GetOAuthClient" ELSE next

errOfWrite(next) ==
    CASE next = "StoreCredentials" -> "write encrypted credentials"
      [] next = "SetupFromFile" -> "store credentials"
      [] next = "StoreToken" -> "write encrypted token"
      [] next = "new" -> "store new token"
      [] OTHER -> "store refreshed token"

\* Store.StoreCredentials(credentials) up to os.WriteFile
StoreCredentials_SealsUnchecked ==
    /\ pc = "idle"
    /\ \E passphrase \in Passphrases, credentials \in CredBlobs, r \in rng :
          BeginWrite(passphrase, "cred", credentials,
                     encrypt(passphrase, credentials, r[1], r[2]),
                     "StoreCredentials")
    /\ UNCHANGED <<tok, tokFrom, ret>>
    /\ UNCHANGED <<credFile, tokFile, clock, issued, hasClient, clientTok, durable>>
    /\ UNCHANGED <<sealVars, chatVars, appVars>>
    /\ UNCHANGED mode
    /\ UNCHANGED refreshTries

StoreCredentials ==
    /\ pc = "idle"
    /\ \E passphrase \in Passphrases, credentials \in CredBlobs :
          IF ~jsonToMap(credentials)
          THEN /\ Finish(Ret("StoreCredentials", "invalid credentials JSON", <<>>,
                             ZeroToken, "none"))
          ELSE /\ \E r \in rng :
                     BeginWrite(passphrase, "cred", credentials,
                                encrypt(passphrase, credentials, r[1], r[2]),
                                "StoreCredentials")
               /\ UNCHANGED <<tok, tokFrom, ret>>
    /\ UNCHANGED <<credFile, tokFile, clock, issued, hasClient, clientTok, durable>>
    /\ UNCHANGED <<sealVars, chatVars, appVars>>
    /\ UNCHANGED mode
    /\ UNCHANGED refreshTries

\* Store.SetupFromFile(credentialsPath) up to os.WriteFile: the file read,
\* the same validation, then StoreCredentials
SetupFromFile ==
    /\ pc = "idle"
    /\ \E passphrase \in Passphrases,
          source \in {NoFile} \cup {File(b) : b \in CredBlobs} :
          IF ~source.exists
          THEN /\ Finish(Ret("SetupFromFile", "read credentials file", <<>>,
                             ZeroToken, "none"))
          ELSE IF ~jsonToMap(source.bytes)
          THEN /\ Finish(Ret("SetupFromFile", "invalid credentials JSON", <<>>,
                             ZeroToken, "none"))
          ELSE /\ \E r \in rng :
                     BeginWrite(passphrase, "cred", source.bytes,
                                encrypt(passphrase, source.bytes, r[1], r[2]),
                                "SetupFromFile")
               /\ UNCHANGED <<tok, tokFrom, ret>>
    /\ UNCHANGED <<credFile, tokFile, clock, issued, hasClient, clientTok, durable>>
    /\ UNCHANGED <<sealVars, chatVars, appVars>>
    /\ UNCHANGED mode
    /\ UNCHANGED refreshTries

\* Store.StoreToken(token), called by the application, up to os.WriteFile
StoreToken ==
    /\ pc = "idle"
    /\ \E passphrase \in Passphrases, token \in CallerTokens, r \in rng :
          BeginWrite(passphrase, "tok", marshalToken(token),
                     encrypt(passphrase, marshalToken(token), r[1], r[2]),
                     "StoreToken")
    /\ UNCHANGED <<tok, tokFrom, ret>>
    /\ UNCHANGED <<credFile, tokFile, clock, issued, hasClient, clientTok, durable>>
    /\ UNCHANGED <<sealVars, chatVars, appVars>>
    /\ UNCHANGED mode
    /\ UNCHANGED refreshTries

\* os.WriteFile, first half: open(O_WRONLY|O_CREATE|O_TRUNC) empties or
\* creates the file, or fails and leaves it alone
WriteOpen ==
    /\ pc = "open"
    /\ \/ /\ pc' = "write"
          /\ IF wTarget = "cred"
             THEN credFile' = File(<<>>) /\ UNCHANGED tokFile
             ELSE tokFile' = File(<<>>) /\ UNCHANGED credFile
          /\ durable' = [durable EXCEPT ![wTarget] = NoPut]
          /\ mode' = [mode EXCEPT ![wTarget] = IF @ = 0 THEN FilePerm ELSE @]
          /\ UNCHANGED <<gPass, tok, tokFrom, wTarget, wData, wPlain, wNext, ret>>
       \/ /\ Finish(Ret(opOfWrite(wNext), errOfWrite(wNext), <<>>, ZeroToken, "none"))
          /\ UNCHANGED <<credFile, tokFile, durable, mode>>
    /\ UNCHANGED <<clock, issued, hasClient, clientTok>>
    /\ UNCHANGED <<sealVars, chatVars, appVars>>
    /\ UNCHANGED refreshTries

\* os.WriteFile, second half: the bytes are written, or the write fails;
\* then the rest of the operation that asked for the write
WriteData ==
    /\ pc = "write"
    /\ \/ /\ IF wTarget = "cred"
             THEN credFile' = File(wData) /\ UNCHANGED tokFile
             ELSE tokFile' = File(wData) /\ UNCHANGED credFile
          /\ durable' = [durable EXCEPT ![wTarget] = <<gPass, wPlain>>]
          /\ IF wNext \in {"StoreCredentials", "SetupFromFile", "StoreToken"}
             THEN /\ Finish(Ret(wNext, "", <<>>, ZeroToken, "none"))
                  /\ UNCHANGED <<hasClient, clientTok>>
             ELSE IF wNext = "new" /\ ~tokenValid(tok, clock)
                  THEN /\ pc' = "refresh"
                       /\ wTarget' = "none" /\ wData' = <<>> /\ wPlain' = <<>>
                       /\ wNext' = "none"
                       /\ UNCHANGED <<gPass, tok, tokFrom, ret, hasClient, clientTok>>
                  ELSE /\ Finish(Ret("GetOAuthClient", "", <<>>, tok, tokFrom))
                       /\ hasClient' = TRUE
                       /\ clientTok' = tok
       \/ /\ Finish(Ret(opOfWrite(wNext), errOfWrite(wNext), <<>>, ZeroToken, "none"))
          /\ UNCHANGED <<credFile, tokFile, hasClient, clientTok, durable>>
    /\ UNCHANGED <<clock, issued>>
    /\ UNCHANGED <<sealVars, chatVars, appVars>>
    /\ UNCHANGED mode
    /\ UNCHANGED refreshTries

\* Store.LoadCredentials()
LoadCredentialsCall ==
    /\ pc = "idle"
    /\ \E passphrase \in Passphrases :
          LET c == LoadCredentials(passphrase)
          IN Finish(Ret("LoadCredentials", c.err, c.data, ZeroToken, "none"))
    /\ UNCHANGED <<credFile, tokFile, clock, issued, hasClient, clientTok, durable>>
    /\ UNCHANGED <<sealVars, chatVars, appVars>>
    /\ UNCHANGED mode
    /\ UNCHANGED refreshTries

\* Store.LoadToken()
LoadTokenCall ==
    /\ pc = "idle"
    /\ \E passphrase \in Passphrases :
          LET t == LoadToken(passphrase)
          IN Finish(Ret("LoadToken", t.err, <<>>, t.token, "none"))
    /\ UNCHANGED <<credFile, tokFile, clock, issued, hasClient, clientTok, durable>>
    /\ UNCHANGED <<sealVars, chatVars, appVars>>
    /\ UNCHANGED mode
    /\ UNCHANGED refreshTries

\* Store.GetOAuthClient up to the first point where it waits for the
\* outside: LoadCredentials, ConfigFromJSON, LoadToken, tok.Valid()
GetOAuthClientWith(passphrase) ==
    /\ pc = "idle"
    /\ passphrase \in Passphrases /\
          LET c == LoadCredentials(passphrase)
              t == LoadToken(passphrase)
          IN IF c.err # ""
             THEN /\ Finish(Ret("GetOAuthClient", "load credentials", <<>>,
                                ZeroToken, "none"))
                  /\ UNCHANGED <<hasClient, clientTok>>
             ELSE IF ~isOAuthConfig(c.data)
             THEN /\ Finish(Ret("GetOAuthClient", "parse credentials", <<>>,
                                ZeroToken, "none"))
                  /\ UNCHANGED <<hasClient, clientTok>>
             ELSE IF t.err # ""
             THEN /\ pc' = "web"
                  /\ gPass' = passphrase
                  /\ UNCHANGED <<tok, tokFrom, wTarget, wData, wPlain, wNext, ret,
                                 hasClient, clientTok>>
             ELSE IF ~tokenValid(t.token, clock)
             THEN /\ pc' = "refresh"
                  /\ gPass' = passphrase
                  /\ tok' = t.token
                  /\ tokFrom' = "loaded"
                  /\ UNCHANGED <<wTarget, wData, wPlain, wNext, ret, hasClient,
                                 clientTok>>
             ELSE /\ Finish(Ret("GetOAuthClient", "", <<>>, t.token, "loaded"))
                  /\ hasClient' = TRUE
                  /\ clientTok' = t.token
    /\ UNCHANGED <<credFile, tokFile, clock, issued, durable>>
    /\ UNCHANGED <<sealVars, chatVars, appVars>>
    /\ UNCHANGED mode
    /\ refreshTries' = 0

\* Store.GetOAuthClient(ctx), on a Store made with any passphrase
GetOAuthClient == \E passphrase \in Passphrases : GetOAuthClientWith(passphrase)

\* Store.getTokenFromWeb: the prompt, the code typed in, config.Exchange;
\* then StoreToken(tok) up to os.WriteFile
getTokenFromWeb ==
    /\ pc = "web"
    /\ \/ /\ \E e \in {"read authorization code", "exchange authorization code"} :
                Finish(Ret("GetOAuthClient", e, <<>>, ZeroToken, "none"))
          /\ UNCHANGED <<issued>>
       \/ /\ issued < MaxIssued
          /\ \E lifetime \in Lifetimes, r \in rng :
                LET t == serverToken(issued + 1, 1, lifetime, clock)
                IN /\ tok' = t
                   /\ BeginWrite(gPass, "tok", marshalToken(t),
                                 encrypt(gPass, marshalToken(t), r[1], r[2]), "new")
          /\ tokFrom' = "web"
          /\ issued' = issued + 1
          /\ UNCHANGED ret
    /\ UNCHANGED <<credFile, tokFile, clock, hasClient, clientTok, durable>>
    /\ UNCHANGED <<sealVars, chatVars, appVars>>
    /\ UNCHANGED mode
    /\ UNCHANGED refreshTries

\* config.TokenSource(ctx, tok).Token() on a token that is not valid: one
\* request to the token endpoint; then StoreToken(newToken) up to
\* os.WriteFile.  tok holds newToken from here on.
refreshToken ==
    /\ pc = "refresh"
    /\ \/ /\ tok.refresh = 0
          /\ Finish(Ret("GetOAuthClient", "refresh token: no refresh token", <<>>,
                        ZeroToken, "none"))
          /\ UNCHANGED <<issued, refreshTries>>
       \/ /\ tok.refresh # 0
          /\ \E e \in {"refresh token: invalid_grant", "refresh token: unavailable"} :
                Finish(Ret("GetOAuthClient", e, <<>>, ZeroToken, "none"))
          /\ refreshTries' = refreshTries + 1
          /\ UNCHANGED <<issued>>
       \/ /\ tok.refresh # 0
          /\ issued < MaxIssued
          /\ \E lifetime \in Lifetimes \ {1}, r \in rng :
                LET t == serverToken(issued + 1, tok.refresh, lifetime, clock)
                IN /\ tok' = t
                   /\ BeginWrite(gPass, "tok", marshalToken(t),
                                 encrypt(gPass, marshalToken(t), r[1], r[2]),
                                 "refreshed")
          /\ tokFrom' = "refreshed"
          /\ issued' = issued + 1
          /\ refreshTries' = refreshTries + 1
          /\ UNCHANGED ret
    /\ UNCHANGED <<credFile, tokFile, clock, hasClient, clientTok, durable>>
    /\ UNCHANGED <<sealVars, chatVars, appVars>>
    /\ UNCHANGED mode

\* a request through the client GetOAuthClient returned: its token source
\* reuses the token while it is valid and otherwise refreshes it in memory
ClientRequest ==
    /\ pc = "idle"
    /\ hasClient
    /\ IF tokenValid(clientTok, clock)
       THEN /\ Finish(Ret("Request", "", <<>>, clientTok, "client"))
            /\ UNCHANGED <<clientTok, issued>>
       ELSE IF clientTok.refresh = 0
       THEN /\ Finish(Ret("Request", "no refresh token", <<>>, ZeroToken, "none"))
            /\ UNCHANGED <<clientTok, issued>>
       ELSE \/ /\ \E e \in {"invalid_grant", "unavailable"} :
                     Finish(Ret("Request", e, <<>>, ZeroToken, "none"))
               /\ UNCHANGED <<clientTok, issued>>
            \/ /\ issued < MaxIssued
               /\ \E lifetime \in Lifetimes \ {1} :
                     LET t == serverToken(issued + 1, clientTok.refresh, lifetime, clock)
                     IN /\ clientTok' = t
                             /\ Finish(Ret("Request", "", <<>>, t, "client refresh"))
               /\ issued' = issued + 1
    /\ UNCHANGED <<credFile, tokFile, clock, hasClient, durable>>
    /\ UNCHANGED <<sealVars, chatVars, appVars>>
    /\ UNCHANGED mode
    /\ UNCHANGED refreshTries

\* Store.Cleanup(): os.Remove of either record may fail for a reason other
\* than the record being absent
Cleanup_KeepsToken ==
    /\ pc = "idle"
    /\ \E failCred \in {FALSE, credFile.exists} :
          /\ credFile' = IF failCred THEN credFile ELSE NoFile
          /\ durable' = [durable EXCEPT !.cred = IF failCred THEN @ ELSE NoPut]
          /\ mode' = [mode EXCEPT !.cred = IF failCred THEN @ ELSE 0]
          /\ Finish(Ret("Cleanup", IF failCred THEN "cleanup errors" ELSE "",
                        <<>>, ZeroToken, "none"))
    /\ UNCHANGED <<tokFile, clock, issued, hasClient, clientTok>>
    /\ UNCHANGED <<sealVars, chatVars, appVars>>
    /\ UNCHANGED refreshTries

Cleanup ==
    /\ pc = "idle"
    /\ \E failCred \in {FALSE, credFile.exists}, failTok \in {FALSE, tokFile.exists} :
          /\ credFile' = IF failCred THEN credFile ELSE NoFile
          /\ tokFile' = IF failTok THEN tokFile ELSE NoFile
          /\ durable' = [cred |-> IF failCred THEN durable.cred ELSE NoPut,
                         tok |-> IF failTok THEN durable.tok ELSE NoPut]
          /\ mode' = [dir |-> mode.dir,
                      cred |-> IF failCred THEN mode.cred ELSE 0,
                      tok |-> IF failTok THEN mode.tok ELSE 0]
          /\ Finish(Ret("Cleanup",
                        IF failCred \/ failTok THEN "cleanup errors" ELSE "",
                        <<>>, ZeroToken, "none"))
    /\ UNCHANGED <<clock, issued, hasClient, clientTok>>
    /\ UNCHANGED <<sealVars, chatVars, appVars>>
    /\ UNCHANGED refreshTries

\* the process stops (crash, kill, exit): what it held in memory is gone
Crash ==
    /\ pc \in {"open", "write", "web", "refresh"} \/ (pc = "idle" /\ hasClient)
    /\ Finish(Ret("crash", "", <<>>, ZeroToken, "none"))
    /\ hasClient' = FALSE
    /\ clientTok' = ZeroToken
    /\ UNCHANGED <<credFile, tokFile, clock, issued, durable>>
    /\ UNCHANGED <<sealVars, chatVars, appVars>>
    /\ UNCHANGED mode
    /\ UNCHANGED refreshTries

\* a second passes between two operations
Tick ==
    /\ pc = "idle"
    /\ clock < MaxClock
    /\ clock' = clock + 1
    /\ UNCHANGED <<credFile, tokFile, issued, pc, gPass, tok, tokFrom,
                   wTarget, wData, wPlain, wNext, hasClient, clientTok, ret,
                   durable>>
    /\ UNCHANGED <<sealVars, chatVars, appVars>>
    /\ UNCHANGED mode
    /\ UNCHANGED refreshTries

\* the token lifecycle: GetOAuthClient and the client it returns, with the
\* application storing tokens of its own and time passing
NextOAuth ==
    \/ GetOAuthClient \/ getTokenFromWeb \/ refreshToken
    \/ WriteOpen \/ WriteData \/ StoreToken
    \/ ClientRequest \/ Crash \/ Tick

\* the records alone
NextStore ==
    \/ StoreCredentials \/ SetupFromFile \/ StoreToken \/ WriteOpen \/ WriteData
    \/ LoadCredentialsCall \/ LoadTokenCall \/ Cleanup \/ Crash

(***************************************************************************)
(* What the token record holds, read with any of the passphrases           *)
(***************************************************************************)
RecordHolds(t) ==
    \E k \in Passphrases :
        LET l == loadTokenFrom(k, tokFile) IN l.err = "" /\ l.token = t

(***************************************************************************)
(* C4  Persist-before-return: when an operation has handed out or used a   *)
(* token it newly obtained (authorization-code exchange, refresh inside    *)
(* GetOAuthClient, refresh by the returned client), the token record holds *)
(* that token.                                                             *)
(***************************************************************************)
PersistBeforeReturn ==
    (pc = "idle" /\ ret.err = "" /\ ret.from \in {"web", "refreshed", "client refresh"})
        => RecordHolds(ret.tok)

WebOnlyFromAbsent ==
    pc = "web" => ~tokFile.exists

(***************************************************************************)
(* C7  Unrecoverable refresh leads back to Absent: when GetOAuthClient has *)
(* returned the error of a refresh answered invalid_grant, no token record *)
(* exists.                                                                 *)
(***************************************************************************)
UnrecoverableLeadsToAbsent ==
    (pc = "idle" /\ ret.op = "GetOAuthClient"
       /\ ret.err = "refresh token: invalid_grant")
        => ~tokFile.exists

(***************************************************************************)
(* C18  Refresh goes through the retry policy: when GetOAuthClient has     *)
(* returned the error of a refresh that failed for a transient reason, it  *)
(* has sent more than one refresh request.                                 *)
(***************************************************************************)
RefreshRetried ==
    (pc = "idle" /\ ret.op = "GetOAuthClient"
       /\ ret.err = "refresh token: unavailable")
        => refreshTries >= 2

(***************************************************************************)
(* A record file that holds a whole envelope: salt, nonce and tag at least *)
(***************************************************************************)
Complete(file) == file.exists /\ Len(file.bytes) >= MinEnvelopeLen

(***************************************************************************)
(* C12  Atomic replace: no step of a put over a record that holds a        *)
(* complete envelope leaves the record file existing with anything but     *)
(* that envelope or the complete new one.                                  *)
(***************************************************************************)
AtomicReplace ==
    [][/\ (Complete(credFile) /\ credFile'.exists)
            => (credFile' = credFile \/ (wTarget = "cred" /\ credFile' = File(wData)))
       /\ (Complete(tokFile) /\ tokFile'.exists)
            => (tokFile' = tokFile \/ (wTarget = "tok" /\ tokFile' = File(wData)))]_vars

(***************************************************************************)
(* C13  Validation before sealing: a StoreCredentials or SetupFromFile     *)
(* call that returns the validation error has begun no write and has left  *)
(* both records exactly as they were; and the bytes of every credentials   *)
(* write under way are an envelope of a plaintext that parses as JSON.     *)
(***************************************************************************)
ValidationBeforeSealing ==
    /\ [](wTarget = "cred" =>
             LET d == decrypt(gPass, wData)
             IN d.err = "" /\ d.data \in CredBlobs \ {<<120>>})
    /\ [][(pc = "idle" /\ ret' # ret /\ ret'.err = "invalid credentials JSON")
            => /\ ret'.op \in {"StoreCredentials", "SetupFromFile"}
               /\ credFile' = credFile /\ tokFile' = tokFile
               /\ pc' = "idle" /\ wTarget' = "none" /\ wData' = <<>>]_vars

ValidationWitness ==
    /\ pc = "idle" /\ ret.op = "StoreCredentials"
    /\ ret.err = "invalid credentials JSON"
    /\ Complete(credFile)

(***************************************************************************)
(* C14  Durable get-after-put: while a record has not been written or      *)
(* removed since a put on it succeeded, LoadCredentials (LoadToken) with   *)
(* the passphrase of that put returns the bytes (the token) that were put, *)
(* whatever else has happened since, writes and removals of the other      *)
(* record and process restarts included.                                   *)
(***************************************************************************)
DurableGetAfterPut ==
    /\ durable.cred # NoPut =>
          LoadCredentials(durable.cred[1]) = [err |-> "", data |-> durable.cred[2]]
    /\ durable.tok # NoPut =>
          LET l == LoadToken(durable.tok[1])
          IN l.err = "" /\ l.token.access = unmarshalToken(durable.tok[2]).token.access
                        /\ marshalToken(l.token) = durable.tok[2]

DurableWitness ==
    /\ durable.cred # NoPut /\ durable.cred[2] = <<123, 119, 125>>
    /\ ret.op = "crash" /\ tokFile = File(<<>>)

OwnerOnlyPermissions ==
    /\ pc # "off" => mode.dir = DirPerm
    /\ (pc = "idle" /\ ret.err = "" /\ ret.op \in {"StoreCredentials", "SetupFromFile"})
          => mode.cred = FilePerm
    /\ (pc = "idle" /\ ret.err = "" /\ ret.op = "StoreToken")
          => mode.tok = FilePerm

(***************************************************************************)
(* Client.Chat: the retry loop                                             *)
(***************************************************************************)
RetryMax == 5
BackoffMin == 1500          \* milliseconds
BackoffMax == 6000          \* milliseconds
JitterBound == 700          \* rand.Intn(700) milliseconds

NoErr == [kind |-> "nil", status |-> 0]
MissingKey == [kind |-> "missing API key", status |-> 0]
NoRet == [text |-> "", err |-> [kind |-> "not returned", status |-> 0]]

\* what one http.DefaultClient.Do(req) can deliver
Statuses == {200, 201, 400, 401, 429, 499, 500, 599, 600}
Bodies == {"undecodable", "no content", "text"}
TransportErr == [kind |-> "transport", status |-> 0, body |-> ""]
CtxErr == [kind |-> "context canceled", status |-> 0, body |-> ""]
Responses ==
    {[kind |-> "response", status |-> 200, body |-> b] : b \in Bodies}
    \cup {[kind |-> "response", status |-> st, body |-> "error"] : st \in Statuses \ {200}}

\* A cancelled context makes Do fail at once.  A request whose body reader
\* was drained by an earlier attempt cannot deliver its body again: Do fails
\* in the transport, or the server answers the headers alone with an error
\* status.
DoOutcomes(unread, cancelled) ==
    IF cancelled THEN {CtxErr}
    ELSE IF unread THEN {TransportErr} \cup Responses
    ELSE {TransportErr} \cup {r \in Responses : r.status # 200}

\* the error value the loop builds from what an attempt observed
errOf(o) ==
    IF o.kind # "response" THEN [kind |-> o.kind, status |-> 0]
    ELSE IF o.status = 200
         THEN [kind |-> (IF o.body = "undecodable" THEN "unmarshal" ELSE "no content"),
               status |-> 0]
         ELSE [kind |-> "status", status |-> o.status]

\* the loop condition  attempt <= config.RetryMax
loopCond_Strict(a) == a < RetryMax

loopCond(a) == a <= RetryMax

\* One pass of the loop body up to the backoff: what the attempt's outcome
\* makes the call do.  [return, text, err]: return the pair, or go on to the
\* backoff with lastErr = err.
afterDo_RetriesAll(o) ==
    IF o.kind = "response" /\ o.status = 200 /\ o.body = "text"
    THEN [return |-> TRUE, text |-> "text", err |-> NoErr]
    ELSE [return |-> FALSE, text |-> "", err |-> errOf(o)]

afterDo_RetriesClientErrors(o) ==
    IF o.kind # "response"
    THEN [return |-> FALSE, text |-> "", err |-> errOf(o)]
    ELSE IF o.status = 200
         THEN IF o.body = "text"
              THEN [return |-> TRUE, text |-> "text", err |-> NoErr]
              ELSE [return |-> TRUE, text |-> "", err |-> errOf(o)]
         ELSE IF o.status >= 400 /\ o.status <= 599
              THEN [return |-> FALSE, text |-> "", err |-> errOf(o)]
              ELSE [return |-> TRUE, text |-> "", err |-> errOf(o)]

afterDo(o) ==
    IF o.kind # "response"
    THEN [return |-> FALSE, text |-> "", err |-> errOf(o)]
    ELSE IF o.status = 200
         THEN IF o.body = "undecodable"
              THEN [return |-> TRUE, text |-> "", err |-> errOf(o)]
              ELSE IF o.body = "no content"
                   THEN [return |-> TRUE, text |-> "", err |-> errOf(o)]
                   ELSE [return |-> TRUE, text |-> "text", err |-> NoErr]
         ELSE IF o.status = 429 \/ (o.status >= 500 /\ o.status <= 599)
              THEN [return |-> FALSE, text |-> "", err |-> errOf(o)]
              ELSE [return |-> TRUE, text |-> "", err |-> errOf(o)]

\* the backoff before the jitter:
\* math.Min(BackoffMax, BackoffMin * math.Pow(2, attempt-1))
backoff_NoCap(a) == BackoffMin * Pow2(a - 1)

backoff(a) ==
    IF BackoffMin * Pow2(a - 1) < BackoffMax THEN BackoffMin * Pow2(a - 1)
    ELSE BackoffMax

\* the return after the loop
exhausted_ReturnsNil(e) == [text |-> "", err |-> NoErr]

exhausted(e) == [text |-> "", err |-> e]

ChatInit ==
    /\ apiKey \in {"", "sk-key"}
    /\ chatPc = "idle"
    /\ attempt = 0
    /\ doCalls = 0
    /\ sleeps = 0
    /\ lastSleep = 0
    /\ lastErr = NoErr
    /\ observed = <<>>
    /\ bodyUnread = FALSE
    /\ sentFull = <<>>
    /\ ctxDone = FALSE
    /\ afterCancel = 0
    /\ chatRet = NoRet

ChatOff ==
    /\ apiKey = ""
    /\ chatPc = "off"
    /\ attempt = 0
    /\ doCalls = 0
    /\ sleeps = 0
    /\ lastSleep = 0
    /\ lastErr = NoErr
    /\ observed = <<>>
    /\ bodyUnread = FALSE
    /\ sentFull = <<>>
    /\ ctxDone = FALSE
    /\ afterCancel = 0
    /\ chatRet = NoRet

\* entry: the key check, the request built once, the loop entered
ChatCall ==
    /\ chatPc = "idle"
    /\ IF apiKey = ""
       THEN /\ chatPc' = "done"
            /\ chatRet' = [text |-> "", err |-> MissingKey]
            /\ UNCHANGED <<attempt, bodyUnread>>
       ELSE /\ attempt' = 1
            /\ bodyUnread' = TRUE
            /\ IF loopCond(1)
               THEN chatPc' = "do" /\ UNCHANGED chatRet
               ELSE chatPc' = "done" /\ chatRet' = exhausted(lastErr)
    /\ UNCHANGED <<apiKey, doCalls, sleeps, lastSleep, lastErr, observed, sentFull,
                   ctxDone, afterCancel>>
    /\ UNCHANGED <<sealVars, storeVars, appVars>>

\* http.DefaultClient.Do(req) and the handling of what it delivered
ChatDo ==
    /\ chatPc = "do"
    /\ \E o \in DoOutcomes(bodyUnread, ctxDone) :
          LET d == afterDo(o) IN
          /\ observed' = Append(observed, o)
          /\ IF d.return
             THEN chatPc' = "done" /\ chatRet' = [text |-> d.text, err |-> d.err]
                  /\ UNCHANGED lastErr
             ELSE chatPc' = "sleep" /\ lastErr' = d.err /\ UNCHANGED chatRet
          /\ \/ bodyUnread' = FALSE
             \/ o.kind # "response" /\ bodyUnread' = bodyUnread
    /\ doCalls' = doCalls + 1
    /\ sentFull' = Append(sentFull, bodyUnread)
    /\ afterCancel' = IF ctxDone THEN afterCancel + 1 ELSE afterCancel
    /\ UNCHANGED <<apiKey, attempt, sleeps, lastSleep, ctxDone>>
    /\ UNCHANGED <<sealVars, storeVars, appVars>>

\* the backoff time.Sleep, attempt++ and the loop test
ChatSleep ==
    /\ chatPc = "sleep"
    /\ sleeps' = sleeps + 1
    /\ \E jitter \in {0, 1, JitterBound - 1} : lastSleep' = backoff(attempt) + jitter
    /\ attempt' = attempt + 1
    /\ IF loopCond(attempt + 1)
       THEN chatPc' = "do" /\ UNCHANGED chatRet
       ELSE chatPc' = "done" /\ chatRet' = exhausted(lastErr)
    /\ afterCancel' = IF ctxDone THEN afterCancel + 1 ELSE afterCancel
    /\ UNCHANGED <<apiKey, doCalls, lastErr, observed, bodyUnread, sentFull, ctxDone>>
    /\ UNCHANGED <<sealVars, storeVars, appVars>>

\* the caller's context is cancelled (signal or timeout) during the call
ChatCancel ==
    /\ chatPc \in {"do", "sleep"}
    /\ ~ctxDone
    /\ ctxDone' = TRUE
    /\ UNCHANGED <<apiKey, chatPc, attempt, doCalls, sleeps, lastSleep, lastErr,
                   observed, bodyUnread, sentFull, afterCancel, chatRet>>
    /\ UNCHANGED <<sealVars, storeVars, appVars>>

NextChat == ChatCall \/ ChatDo \/ ChatSleep \/ ChatCancel


(***************************************************************************)
(* The failure classes of the retry policy, as the claims state them       *)
(***************************************************************************)
IsSuccess(o) == o.kind = "response" /\ o.status = 200 /\ o.body = "text"
IsRetryable(o) ==
    \/ o.kind # "response"
    \/ o.kind = "response" /\ (o.status = 429 \/ o.status \in 500 .. 599)
IsFatal(o) == ~IsSuccess(o) /\ ~IsRetryable(o)

(***************************************************************************)
(* C8  Retry bound and termination: a call whose attempts all fail         *)
(* retryably makes exactly RetryMax attempts and returns the last observed *)
(* failure as a non-nil error; no call makes more than RetryMax attempts,  *)
(* and a call that has not returned has made fewer than RetryMax Do calls  *)
(* or is in its last backoff.                                              *)
(***************************************************************************)
RetryBound ==
    /\ doCalls <= RetryMax /\ sleeps <= doCalls
    /\ (chatPc = "do") => doCalls < RetryMax
    /\ (chatPc = "done" /\ observed # <<>>
          /\ \A i \in 1 .. Len(observed) : IsRetryable(observed[i]))
        => /\ doCalls = RetryMax
           /\ Len(observed) = RetryMax
           /\ chatRet.err # NoErr
           /\ chatRet.err = errOf(observed[Len(observed)])

RetryBoundWitness ==
    /\ chatPc = "done" /\ doCalls = RetryMax
    /\ \A i \in 1 .. Len(observed) : IsRetryable(observed[i])
    /\ observed[1].kind = "response" /\ observed[RetryMax].kind = "transport"
    /\ chatRet.err.kind = "transport"

(***************************************************************************)
(* C9  Fatal short-circuit: a fatal failure is always the last thing a     *)
(* call observes; the call has then returned that failure, with no Do and  *)
(* no backoff sleep after it.                                              *)
(***************************************************************************)
FatalShortCircuit ==
    \A i \in 1 .. Len(observed) :
        IsFatal(observed[i])
            => /\ i = Len(observed)
               /\ chatPc = "done"
               /\ chatRet = [text |-> "", err |-> errOf(observed[i])]
               /\ doCalls = i
               /\ sleeps = i - 1

FatalWitness ==
    /\ chatPc = "done" /\ doCalls = 1 /\ sleeps = 0
    /\ IsFatal(observed[1]) /\ chatRet.err.kind = "status"

(***************************************************************************)
(* C10  No fabricated success: a call returns a nil error only when its    *)
(* last attempt received a 200 response with content, right after that     *)
(* attempt; every other return carries a non-nil error.                    *)
(***************************************************************************)
NoFabricatedSuccess ==
    /\ (chatPc = "done" /\ chatRet.err = NoErr)
          => /\ observed # <<>>
             /\ IsSuccess(observed[Len(observed)])
             /\ chatRet.text = observed[Len(observed)].body
             /\ doCalls = Len(observed)
             /\ sleeps = doCalls - 1
    /\ (chatPc = "done" /\ (observed = <<>> \/ ~IsSuccess(observed[Len(observed)])))
          => chatRet.err # NoErr
    /\ \A i \in 1 .. Len(observed) :
          IsSuccess(observed[i]) => (i = Len(observed) /\ chatPc = "done"
                                     /\ chatRet.err = NoErr)

SuccessWitness ==
    /\ chatPc = "done" /\ chatRet.err = NoErr /\ doCalls = 1
    /\ IsSuccess(observed[1])

(***************************************************************************)
(* C11  Cancellation: once the caller's context is cancelled during a      *)
(* call, at most the Do or Sleep that was under way finishes, and with it  *)
(* the call has returned the cancellation error.                           *)
(***************************************************************************)
CancelAborts ==
    ctxDone =>
        /\ afterCancel <= 1
        /\ (afterCancel = 1 =>
               (chatPc = "done" /\ chatRet = [text |-> "", err |-> errOf(CtxErr)]))

(***************************************************************************)
(* C16  Backoff schedule: the wait after the failure of attempt a is       *)
(* 1500 ms, 3000 ms, then 6000 ms for every later attempt (that is,        *)
(* min(BackoffMax, BackoffMin * 2^(a-1))), plus a jitter of 0..699 ms; the *)
(* pre-jitter waits never decrease with a, and every wait is less than     *)
(* BackoffMax + 700 ms.                                                    *)
(***************************************************************************)
BackoffSchedule ==
    /\ sleeps >= 1 =>
          LET a == attempt - 1
              base == CASE a = 1 -> 1500 [] a = 2 -> 3000 [] OTHER -> 6000
          IN /\ lastSleep - base \in 0 .. 699
             /\ lastSleep < BackoffMax + 700
    /\ \A a \in 1 .. (RetryMax - 1) : backoff(a) <= backoff(a + 1)

BackoffWitness ==
    /\ sleeps = 4 /\ attempt = 5 /\ lastSleep = 6699

(***************************************************************************)
(* C17  Failure classification in Chat.  After an attempt that observed a  *)
(* transport error, status 429 or a status in 500..599 the call has not    *)
(* returned at that attempt: it is in the backoff, in a later attempt, or  *)
(* has returned after the backoff of its last attempt.  After any other    *)
(* status but 200, a 200 that cannot be decoded or a 200 without content   *)
(* the call has returned that error at that attempt.  After a 200 with     *)
(* content it has returned the text.  Only attempts of the first class are *)
(* followed by another attempt.                                            *)
(***************************************************************************)
Classification ==
    /\ \A i \in 1 .. (Len(observed) - 1) : IsRetryable(observed[i])
    /\ (observed # <<>>) =>
          LET o == observed[Len(observed)] IN
          /\ IsRetryable(o) =>
                \/ chatPc \in {"sleep", "do"}
                \/ chatPc = "done" /\ sleeps = doCalls /\ doCalls = RetryMax
          /\ (o.kind = "response"
                /\ \/ o.status \notin ({200, 429} \cup (500 .. 599))
                   \/ o.status = 200 /\ o.body \in {"undecodable", "no content"})
               => /\ chatPc = "done" /\ sleeps = doCalls - 1
                  /\ chatRet.text = "" /\ chatRet.err \notin {NoErr, NoRet.err}
                  /\ chatRet.err = errOf(o)
          /\ (o.kind = "response" /\ o.status = 200 /\ o.body = "text")
               => /\ chatPc = "done" /\ sleeps = doCalls - 1
                  /\ chatRet = [text |-> "text", err |-> NoErr]

ClassificationWitness ==
    /\ chatPc = "done" /\ Len(observed) = 3
    /\ observed[1].kind = "transport"
    /\ observed[2].kind = "response" /\ observed[2].status = 429
    /\ observed[3].kind = "response" /\ observed[3].status = 201

(***************************************************************************)
(* App.run: fetch, ProcessNewsletters (the per-newsletter loop, the        *)
(* LinkedIn content, the final synthesis), SendHTML, markEmailsAsRead.     *)
(* A newsletter is its message id; every call to the outside may fail.     *)
(***************************************************************************)
\* strings.ToLower on the values DRY_RUN takes here
toLower(v) == IF v = "TRUE" THEN "true" ELSE v

\* getenv(key, def): the default for an unset or empty variable
getenv(v, def) == IF v # "" THEN v ELSE def

DryRunValues == {"", "false", "true", "TRUE", "1"}

\* config.Load()
Load_DryRunIgnored(dryRun, linkedInOnly, fetchLinkedIn) ==
    [DryRun |-> FALSE,
     LinkedInOnlyMode |-> linkedInOnly,
     FetchLinkedInHashtags |-> fetchLinkedIn]

Load(dryRun, linkedInOnly, fetchLinkedIn) ==
    [DryRun |-> toLower(getenv(dryRun, "false")) = "true",
     LinkedInOnlyMode |-> linkedInOnly,
     FetchLinkedInHashtags |-> fetchLinkedIn]

\* the lists of unread newsletters the mailbox can answer with: every
\* sequence of distinct message ids
Inboxes ==
    {q \in UNION {[1 .. n -> 1 .. MaxMail] : n \in 0 .. MaxMail} :
        \A i, j \in 1 .. Len(q) : i # j => q[i] # q[j]}

NoProcRet == [html |-> "none", items |-> <<>>, err |-> "not returned"]

RunInit ==
    /\ dryRunEnv \in DryRunValues
    /\ \E linkedInOnly \in BOOLEAN, fetchLinkedIn \in BOOLEAN :
          cfg = Load(dryRunEnv, linkedInOnly, fetchLinkedIn)
    /\ runPc = "fetch"
    /\ newsletters = <<>>
    /\ idx = 0
    /\ sumOk = {}
    /\ perSummaries = <<>>
    /\ processedItems = <<>>
    /\ linkedInSummaries = 0
    /\ procRet = NoProcRet
    /\ sent = FALSE
    /\ markRequests = <<>>
    /\ markErr = FALSE
    /\ runRet = "running"

RunOff ==
    /\ dryRunEnv = ""
    /\ cfg = Load("", FALSE, FALSE)
    /\ runPc = "off"
    /\ newsletters = <<>>
    /\ idx = 0
    /\ sumOk = {}
    /\ perSummaries = <<>>
    /\ processedItems = <<>>
    /\ linkedInSummaries = 0
    /\ procRet = NoProcRet
    /\ sent = FALSE
    /\ markRequests = <<>>
    /\ markErr = FALSE
    /\ runRet = "running"


\* App.run returns
RunReturn(r) ==
    /\ runPc' = "done"
    /\ runRet' = r

\* gmailSvc.FetchNewsletters and the early exit of App.run
FetchNewsletters ==
    /\ runPc = "fetch"
    /\ \/ /\ RunReturn("fetch newsletters")
          /\ UNCHANGED <<newsletters, idx>>
       \/ \E inbox \in Inboxes :
             /\ newsletters' = inbox
             /\ IF Len(inbox) = 0 /\ ~cfg.LinkedInOnlyMode
                THEN RunReturn("nil") /\ UNCHANGED idx
                ELSE /\ runPc' = IF Len(inbox) > 0 THEN "summarize" ELSE "linkedin"
                     /\ idx' = 1
                     /\ UNCHANGED runRet
    /\ UNCHANGED <<dryRunEnv, cfg, sumOk, perSummaries, processedItems,
                   linkedInSummaries, procRet, sent, markRequests, markErr>>
    /\ UNCHANGED outsideRun

\* one pass of ProcessNewsletters' loop: summarizeSingle on newsletters[idx]
summarizeSingle_AbortsOnError ==
    /\ runPc = "summarize"
    /\ \/ /\ sumOk' = sumOk \cup {newsletters[idx]}
          /\ perSummaries' = Append(perSummaries, newsletters[idx])
          /\ processedItems' = Append(processedItems, newsletters[idx])
          /\ idx' = idx + 1
          /\ runPc' = IF idx + 1 <= Len(newsletters) THEN "summarize" ELSE "linkedin"
       \/ /\ runPc' = "linkedin"
          /\ UNCHANGED <<sumOk, perSummaries, processedItems, idx>>
    /\ UNCHANGED <<dryRunEnv, cfg, newsletters, linkedInSummaries, procRet, sent,
                   markRequests, markErr, runRet>>
    /\ UNCHANGED outsideRun

summarizeSingle ==
    /\ runPc = "summarize"
    /\ \/ /\ sumOk' = sumOk \cup {newsletters[idx]}
          /\ perSummaries' = Append(perSummaries, newsletters[idx])
          /\ processedItems' = Append(processedItems, newsletters[idx])
       \/ UNCHANGED <<sumOk, perSummaries, processedItems>>
    /\ idx' = idx + 1
    /\ runPc' = IF idx + 1 <= Len(newsletters) THEN "summarize" ELSE "linkedin"
    /\ UNCHANGED <<dryRunEnv, cfg, newsletters, linkedInSummaries, procRet, sent,
                   markRequests, markErr, runRet>>
    /\ UNCHANGED outsideRun

\* the LinkedIn content, then the test for no content at all.  The
\* configured hashtag list is not empty.
fetchLinkedInContent ==
    /\ runPc = "linkedin"
    /\ LET shouldFetchLinkedIn ==
              cfg.FetchLinkedInHashtags /\ (Len(newsletters) > 0 \/ cfg.LinkedInOnlyMode)
       IN \E n \in (IF shouldFetchLinkedIn THEN {0, 1} ELSE {0}) :
             /\ linkedInSummaries' = n
             /\ IF Len(perSummaries) + n = 0
                THEN /\ procRet' = [html |-> "", items |-> <<>>,
                                    err |-> "no usable content extracted"]
                     /\ RunReturn("process newsletters")
                ELSE /\ runPc' = "synthesize"
                     /\ UNCHANGED <<procRet, runRet>>
    /\ UNCHANGED <<dryRunEnv, cfg, newsletters, idx, sumOk, perSummaries,
                   processedItems, sent, markRequests, markErr>>
    /\ UNCHANGED outsideRun

\* synthesizeFinal or the fallback; ProcessNewsletters returns
synthesizeFinal ==
    /\ runPc = "synthesize"
    /\ \E html \in {"final", "fallback"} :
          procRet' = [html |-> html, items |-> processedItems, err |-> "nil"]
    /\ runPc' = "send"
    /\ UNCHANGED <<dryRunEnv, cfg, newsletters, idx, sumOk, perSummaries,
                   processedItems, linkedInSummaries, sent, markRequests, markErr,
                   runRet>>
    /\ UNCHANGED outsideRun

\* gmailSvc.SendHTML, then markEmailsAsRead up to its request
SendHTML_MarksOnFailure ==
    /\ runPc = "send"
    /\ \/ /\ runPc' = "mark"
          /\ UNCHANGED <<sent, runRet>>
       \/ /\ sent' = TRUE
          /\ IF cfg.DryRun
             THEN RunReturn("nil")
             ELSE runPc' = "mark" /\ UNCHANGED runRet
    /\ UNCHANGED <<dryRunEnv, cfg, newsletters, idx, sumOk, perSummaries,
                   processedItems, linkedInSummaries, procRet, markRequests, markErr>>
    /\ UNCHANGED outsideRun

SendHTML ==
    /\ runPc = "send"
    /\ \/ /\ RunReturn("send email")
          /\ UNCHANGED sent
       \/ /\ sent' = TRUE
          /\ IF cfg.DryRun
             THEN RunReturn("nil")
             ELSE runPc' = "mark" /\ UNCHANGED runRet
    /\ UNCHANGED <<dryRunEnv, cfg, newsletters, idx, sumOk, perSummaries,
                   processedItems, linkedInSummaries, procRet, markRequests, markErr>>
    /\ UNCHANGED outsideRun

\* gmailSvc.MarkAsRead(ctx, processedItems): one BatchModify removing
\* UNREAD; its error is logged and App.run returns nil
MarkAsRead ==
    /\ runPc = "mark"
    /\ markRequests' = Append(markRequests, procRet.items)
    /\ markErr' \in BOOLEAN
    /\ RunReturn("nil")
    /\ UNCHANGED <<dryRunEnv, cfg, newsletters, idx, sumOk, perSummaries,
                   processedItems, linkedInSummaries, procRet, sent>>
    /\ UNCHANGED outsideRun

NextRun ==
    \/ FetchNewsletters \/ summarizeSingle \/ fetchLinkedInContent
    \/ synthesizeFinal \/ SendHTML \/ MarkAsRead

(***************************************************************************)
(* C22  DRY_RUN never marks mail as read: in a run with DRY_RUN=true no    *)
(* request removing UNREAD is ever issued; a run with DRY_RUN=false that   *)
(* sent its digest and returned nil issued exactly one such request, for   *)
(* exactly the ids of processedItems in their order.                       *)
(***************************************************************************)
DryRunNeverMarks ==
    /\ dryRunEnv = "true" => markRequests = <<>>
    /\ (dryRunEnv = "false" /\ runPc = "done" /\ runRet = "nil" /\ sent)
          => markRequests = <<processedItems>>

DryRunWitness ==
    /\ dryRunEnv = "true" /\ runPc = "done" /\ runRet = "nil" /\ sent
    /\ Len(processedItems) = MaxMail

(***************************************************************************)
(* C24  A Chat call sleeps only between attempts: a call that has returned *)
(* after k attempts has slept at most k-1 times, so the failure of the     *)
(* last attempt is returned without a sleep before it.                     *)
(***************************************************************************)
SleepsOnlyBetweenAttempts ==
    (chatPc = "done" /\ doCalls > 0) => sleeps <= doCalls - 1

(***************************************************************************)
(* C25  Every attempt of a Chat call, the first as much as the later ones, *)
(* transmits the complete request body: the body reader is never already   *)
(* read to its end when an attempt is sent.                                *)
(***************************************************************************)
EveryAttemptSendsFullBody ==
    \A i \in 1 .. Len(sentFull) : sentFull[i]

(***************************************************************************)
(* C26  In App.run the mark-as-read request is made at most once and only  *)
(* after SendHTML returned without error; a run that failed in             *)
(* FetchNewsletters, ProcessNewsletters or SendHTML, or that ended early   *)
(* with nothing to digest, marked nothing; and a run whose digest was sent *)
(* returns nil even when MarkAsRead failed.                                *)
(***************************************************************************)
MarkOnlyAfterSend ==
    /\ Len(markRequests) <= 1
    /\ markRequests # <<>> => sent
    /\ runRet \in {"fetch newsletters", "process newsletters", "send email"}
          => markRequests = <<>> /\ ~sent
    /\ (runPc = "done" /\ ~sent) => markRequests = <<>>
    /\ (runPc = "done" /\ sent) => runRet = "nil"
    /\ markErr => (markRequests # <<>> /\ runPc = "done" /\ runRet = "nil")

MarkWitness ==
    /\ runPc = "done" /\ sent /\ markErr /\ runRet = "nil"
    /\ Len(markRequests) = 1 /\ Len(markRequests[1]) > 0

(***************************************************************************)
(* C27  ProcessNewsletters goes through every newsletter whatever fails:   *)
(* the processedItems it returns are the input newsletters whose           *)
(* summarization succeeded, in input order; it returns an error exactly    *)
(* when neither a newsletter summary nor a LinkedIn summary was produced;  *)
(* and when the final synthesis fails it returns the fallback HTML, no     *)
(* error and the same processedItems.                                      *)
(***************************************************************************)
PartialFailureTolerance ==
    procRet.err # "not returned" =>
       LET succeeded == SelectSeq(newsletters, LAMBDA n : n \in sumOk) IN
       /\ idx = Len(newsletters) + 1
       /\ procRet.err # "nil" <=> (sumOk = {} /\ linkedInSummaries = 0)
       /\ procRet.items = succeeded
       /\ procRet.html = "fallback" => procRet.err = "nil"

PartialFailureWitness ==
    /\ procRet.err = "nil" /\ procRet.html = "fallback"
    /\ Len(newsletters) = MaxMail
    /\ newsletters[1] \notin sumOk
    /\ procRet.items = <<newsletters[MaxMail]>>

(***************************************************************************)
(* C28  GetOAuthClient without a usable credentials record has no effects: *)
(* when the record is absent, does not decrypt under the Store's           *)
(* passphrase, or decrypts to something that is no OAuth client            *)
(* configuration, the call returns an error at once, without the prompt    *)
(* for an authorization code, without a request to the Authorization       *)
(* Server, and with the token record as it was.                            *)
(***************************************************************************)
NoUsableCredentials(passphrase) ==
    LET c == LoadCredentials(passphrase)
    IN \/ c.err # ""
       \/ c.data \notin {<<123, 105, 125>>, <<123, 119, 125>>}

NoCredentialsNoEffects ==
    [][\A passphrase \in Passphrases :
          (GetOAuthClientWith(passphrase) /\ NoUsableCredentials(passphrase)) =>
             /\ pc' = "idle"
             /\ ret'.op = "GetOAuthClient"
             /\ ret'.err \in {"load credentials", "parse credentials"}
             /\ issued' = issued
             /\ refreshTries' = 0
             /\ tokFile' = tokFile /\ credFile' = credFile
             /\ wTarget' = "none"
             /\ hasClient' = hasClient /\ clientTok' = clientTok]_vars

NoCredentialsWitness ==
    /\ ret.op = "GetOAuthClient" /\ ret.err = "load credentials"
    /\ credFile.exists /\ tokFile.exists
    /\ pc = "idle" /\ issued = 1

NotAConfigurationWitness ==
    /\ ret.op = "GetOAuthClient" /\ ret.err = "parse credentials"
    /\ pc = "idle" /\ issued = 0

(***************************************************************************)
(* credentials.ValidateEnvironment                                         *)
(***************************************************************************)
required_NoPassphrase == {"OPENAI_API_KEY", "TO_EMAIL"}

required == {"OPENAI_API_KEY", "TO_EMAIL", "CREDENTIALS_PASSPHRASE"}

\* the variables the environment is looked at for
EnvNames == {"OPENAI_API_KEY", "TO_EMAIL", "CREDENTIALS_PASSPHRASE"}

\* what a variable may hold: nothing, a blank, a value
SecretValues == {"", " ", "secret"}
AddressValues == {"", " ", "a@b.c", "Bob <a@b.c>", "a.b.c", "@"}

\* mail.ParseAddress(v) returns no error
parseAddress(v) == v \in {"a@b.c", "Bob <a@b.c>"}

NoEnvRet == [err |-> "not called", name |-> ""]

EnvInit ==
    /\ \E k \in SecretValues, p \in SecretValues, a \in AddressValues :
          environ = [n \in EnvNames |->
                   CASE n = "OPENAI_API_KEY" -> k
                     [] n = "CREDENTIALS_PASSPHRASE" -> p
                     [] OTHER -> a]
    /\ envPc = "call"
    /\ envRet = NoEnvRet

EnvOff ==
    /\ environ = [n \in EnvNames |-> ""]
    /\ envPc = "off"
    /\ envRet = NoEnvRet

\* ValidateEnvironment(): the range over the map of required variables
\* visits them in any order and returns at the first one that is empty
ValidateEnvironment ==
    /\ envPc = "call"
    /\ LET unset == {n \in required : environ[n] = ""}
       IN IF unset # {}
          THEN \E n \in unset :
                  envRet' = [err |-> "required environment variable not set", name |-> n]
          ELSE IF ~parseAddress(environ["TO_EMAIL"])
          THEN envRet' = [err |-> "invalid TO_EMAIL format", name |-> "TO_EMAIL"]
          ELSE envRet' = [err |-> "nil", name |-> ""]
    /\ envPc' = "done"
    /\ UNCHANGED environ
    /\ UNCHANGED outsideEnv

NextEnv == ValidateEnvironment

(***************************************************************************)
(* C23  ValidateEnvironment returns an error exactly when one of           *)
(* OPENAI_API_KEY, TO_EMAIL, CREDENTIALS_PASSPHRASE is unset or empty or   *)
(* TO_EMAIL does not parse as a mail address, nil otherwise, and leaves    *)
(* the environment as it was.                                              *)
(***************************************************************************)
EnvironmentValidated ==
    [][envPc' = "done" =>
         /\ envRet'.err # "nil"
               <=> \/ environ["OPENAI_API_KEY"] = ""
                   \/ environ["TO_EMAIL"] = ""
                   \/ environ["CREDENTIALS_PASSPHRASE"] = ""
                   \/ environ["TO_EMAIL"] \notin {"a@b.c", "Bob <a@b.c>"}
         /\ environ' = environ]_vars

EnvironmentWitness ==
    /\ envPc = "done" /\ envRet.err = "required environment variable not set"
    /\ envRet.name = "CREDENTIALS_PASSPHRASE"
    /\ environ["OPENAI_API_KEY"] = "secret" /\ environ["TO_EMAIL"] = "a@b.c"

(***************************************************************************)
(* ContentFetcher.fetchHashtagPosts and the cache files of its responses   *)
(***************************************************************************)
MaxNow == 3

\* 1*time.Hour on a clock that counts half hours
Hour == 2

Hashtags == {"ai", "golang"}

\* a cache file: absent, or its content (does it unmarshal into
\* []ForumScoutPost) and its modification time
NoCache == [exists |-> FALSE, parses |-> FALSE, mtime |-> 0]
Cache(parses, mtime) == [exists |-> TRUE, parses |-> parses, mtime |-> mtime]

\* what f.client.Do and the reading of the body can give
ApiOutcomes ==
    {[kind |-> "transport", status |-> 0, parses |-> FALSE]}
    \cup {[kind |-> "response", status |-> st, parses |-> FALSE] :
             st \in {429, 401, 403, 500, 200}}
    \cup {[kind |-> "response", status |-> 200, parses |-> TRUE]}

NoFetch == [tag |-> "", source |-> "none", request |-> FALSE, status |-> 0,
            err |-> ""]

\* getCachedResponse(hashtag): found
getCachedResponse_IgnoresAge(hashtag) ==
    /\ cacheFile[hashtag].exists
    /\ cacheFile[hashtag].parses

getCachedResponse(hashtag) ==
    /\ cacheFile[hashtag].exists
    /\ wallClock - cacheFile[hashtag].mtime < Hour
    /\ cacheFile[hashtag].parses

\* cacheResponse(hashtag, posts): os.WriteFile, its error ignored: the
\* file written, not opened, or cut short
cacheResponse(hashtag) ==
    \/ cacheFile' = [cacheFile EXCEPT ![hashtag] = Cache(TRUE, wallClock)]
    \/ cacheFile' = cacheFile
    \/ cacheFile' = [cacheFile EXCEPT ![hashtag] = Cache(FALSE, wallClock)]

fetchHashtagPostsOf(hashtag) ==
    /\ hashtag \in Hashtags
    /\ IF getCachedResponse(hashtag)
       THEN /\ lastFetch' = [tag |-> hashtag, source |-> "cache", request |-> FALSE,
                             status |-> 0, err |-> ""]
            /\ UNCHANGED cacheFile
       ELSE IF forumScoutKey = ""
       THEN /\ lastFetch' = [tag |-> hashtag, source |-> "mock", request |-> FALSE,
                             status |-> 0, err |-> ""]
            /\ UNCHANGED cacheFile
       ELSE \E o \in ApiOutcomes :
               LET called(err) == [tag |-> hashtag, source |-> "api", request |-> TRUE,
                                   status |-> o.status, err |-> err]
               IN IF o.kind = "transport"
                  THEN lastFetch' = called("API request failed") /\ UNCHANGED cacheFile
                  ELSE IF o.status = 429
                  THEN lastFetch' = called("rate limit exceeded") /\ UNCHANGED cacheFile
                  ELSE IF o.status = 401
                  THEN lastFetch' = called("invalid API key") /\ UNCHANGED cacheFile
                  ELSE IF o.status = 403
                  THEN lastFetch' = called("access forbidden") /\ UNCHANGED cacheFile
                  ELSE IF o.status # 200
                  THEN lastFetch' = called("API returned status") /\ UNCHANGED cacheFile
                  ELSE IF ~o.parses
                  THEN lastFetch' = called("failed to parse API response")
                       /\ UNCHANGED cacheFile
                  ELSE lastFetch' = called("") /\ cacheResponse(hashtag)
    /\ UNCHANGED <<wallClock, forumScoutKey>>
    /\ UNCHANGED outsideCache

\* FetchLinkedInHashtagContent calls it for each hashtag
fetchHashtagPosts == \E hashtag \in Hashtags : fetchHashtagPostsOf(hashtag)

\* half an hour passes
CacheTick ==
    /\ wallClock < MaxNow
    /\ wallClock' = wallClock + 1
    /\ UNCHANGED <<cacheFile, forumScoutKey, lastFetch>>
    /\ UNCHANGED outsideCache

CacheInit ==
    /\ cacheFile \in [Hashtags -> {NoCache, Cache(TRUE, 0), Cache(FALSE, 0)}]
    /\ wallClock = 0
    /\ forumScoutKey \in {"", "key"}
    /\ lastFetch = NoFetch

CacheOff ==
    /\ cacheFile = [h \in Hashtags |-> NoCache]
    /\ wallClock = 0
    /\ forumScoutKey = ""
    /\ lastFetch = NoFetch

NextCache == fetchHashtagPosts \/ CacheTick

(***************************************************************************)
(* C29  fetchHashtagPosts makes no API request for a hashtag whose cache   *)
(* file exists, parses and is less than an hour old; otherwise it makes    *)
(* the request, or returns mock posts when no API key is set.  A cache     *)
(* file changes only in a call whose request was answered 200 with a body  *)
(* that parsed, and only the file of the hashtag asked for.                *)
(***************************************************************************)
CacheFreshness ==
    [][\A h \in Hashtags :
          fetchHashtagPostsOf(h) =>
             LET f == cacheFile[h]
                 fresh == f.exists /\ f.parses /\ wallClock - f.mtime <= Hour - 1
             IN /\ fresh => (~lastFetch'.request /\ lastFetch'.source = "cache")
                /\ (~fresh /\ forumScoutKey # "") =>
                       (lastFetch'.request /\ lastFetch'.source = "api")
                /\ (~fresh /\ forumScoutKey = "") =>
                       (~lastFetch'.request /\ lastFetch'.source = "mock")
                /\ cacheFile' # cacheFile =>
                       /\ lastFetch'.request
                       /\ lastFetch'.status = 200 /\ lastFetch'.err = ""
                       /\ \A g \in Hashtags \ {h} : cacheFile'[g] = cacheFile[g]]_vars

\* a request answered 200 was cached, and a later call was served from it
CacheWitness ==
    /\ lastFetch.source = "cache"
    /\ cacheFile[lastFetch.tag].mtime > 0
    /\ forumScoutKey # ""
    /\ wallClock > cacheFile[lastFetch.tag].mtime

(***************************************************************************)
(* Processor.parseTextToHTML                                               *)
(***************************************************************************)
MaxLines == 3

\* the lines a text is made of here
Lines == {"=== News ===", "===", "- item", "  - item  ", "-", "", "   ", "plain"}

\* strings.TrimSpace(line)
trimSpace(line) ==
    CASE line = "  - item  " -> "- item"
      [] line = "   " -> ""
      [] OTHER -> line

\* strings.HasPrefix(line, "===") && strings.HasSuffix(line, "===")
isSectionHeader(line) == line \in {"=== News ===", "==="}

\* strings.HasPrefix(line, "- ")
isBullet(line) == line = "- item"

Texts == UNION {[1 .. n -> Lines] : n \in 0 .. MaxLines}

\* the loop over the lines from line i on, then the closing of the last
\* section
RECURSIVE parseLines(_, _, _, _)
parseLines(lines, i, inSection, out) ==
    IF i > Len(lines)
    THEN IF inSection THEN Append(out, "</ul>") ELSE out
    ELSE LET line == trimSpace(lines[i])
         IN IF line = ""
            THEN parseLines(lines, i + 1, inSection, out)
            ELSE IF isSectionHeader(line)
            THEN parseLines(lines, i + 1, TRUE,
                            (IF inSection THEN Append(out, "</ul>") ELSE out)
                               \o <<"<h2>", "<ul>">>)
            ELSE IF isBullet(line)
            THEN parseLines(lines, i + 1, inSection, Append(out, "<li>"))
            ELSE parseLines(lines, i + 1, inSection, out)

HtmlInit ==
    /\ text \in Texts
    /\ htmlPc = "call"
    /\ htmlOut = <<>>

HtmlOff ==
    /\ text = <<>>
    /\ htmlPc = "off"
    /\ htmlOut = <<>>

parseTextToHTML ==
    /\ htmlPc = "call"
    /\ htmlOut' = parseLines(text, 1, FALSE, <<>>)
    /\ htmlPc' = "done"
    /\ UNCHANGED text
    /\ UNCHANGED outsideHtml

NextHtml == parseTextToHTML

\* the list structure of the pieces from piece i on, with open lists
\* counted in depth: no list inside a list, no item and no closing outside
\* a list, no list left open
RECURSIVE listsWellFormed(_, _, _)
listsWellFormed(out, i, depth) ==
    IF i > Len(out)
    THEN depth = 0
    ELSE CASE out[i] = "<ul>" -> depth = 0 /\ listsWellFormed(out, i + 1, 1)
           [] out[i] = "</ul>" -> depth = 1 /\ listsWellFormed(out, i + 1, 0)
           [] out[i] = "<li>" -> depth = 1 /\ listsWellFormed(out, i + 1, depth)
           [] OTHER -> listsWellFormed(out, i + 1, depth)

(***************************************************************************)
(* C30  Whatever the text, the output of parseTextToHTML closes every list *)
(* it opens exactly once, never opens a list inside a list, and has every  *)
(* list item inside an open list, bullet lines before the first section    *)
(* header included.                                                        *)
(***************************************************************************)
ListsWellFormed ==
    htmlPc = "done" => listsWellFormed(htmlOut, 1, 0)

(***************************************************************************)
(* Specifications                                                          *)
(***************************************************************************)
\* the parts of the program outside the credential store and the Chat call
AppOff == RunOff /\ EnvOff /\ CacheOff /\ HtmlOff

InitSeal == SealInit /\ ChatOff /\ StoreOff /\ AppOff

SpecSeal == InitSeal /\ [][NextSeal]_vars

InitFresh == FreshInit /\ ChatOff /\ StoreOff /\ AppOff

SpecFresh == InitFresh /\ [][NextFresh]_vars

InitChat == ChatInit /\ SealOff(Salts \X Nonces) /\ StoreOff /\ AppOff

SpecChat == InitChat /\ [][NextChat]_vars

\* The records are written under one salt and either nonce.
TwoDraws == {CHOOSE salt \in Salts : TRUE} \X Nonces

InitStore == StoreInit /\ SealOff(TwoDraws) /\ ChatOff /\ AppOff

SpecStore == InitStore /\ [][NextStore]_vars

\* The token lifecycle does not read the envelopes it writes except to open
\* them again: the random source is held to one pair here.
OneDraw == {CHOOSE r \in Salts \X Nonces : TRUE}

InitPerm == SealOff(OneDraw) /\ PermInit /\ ChatOff /\ AppOff

SpecPerm == InitPerm /\ [][NextStore]_vars

InitRun == RunInit /\ EnvOff /\ CacheOff /\ HtmlOff /\ SealOff(OneDraw) /\ ChatOff /\ StoreOff

InitEnv == EnvInit /\ RunOff /\ CacheOff /\ HtmlOff /\ SealOff(OneDraw) /\ ChatOff /\ StoreOff

InitCache == CacheInit /\ RunOff /\ EnvOff /\ HtmlOff /\ SealOff(OneDraw) /\ ChatOff /\ StoreOff

SpecCache == InitCache /\ [][NextCache]_vars

InitHtml == HtmlInit /\ RunOff /\ EnvOff /\ CacheOff /\ SealOff(OneDraw) /\ ChatOff /\ StoreOff

SpecHtml == InitHtml /\ [][NextHtml]_vars

SpecEnv == InitEnv /\ [][NextEnv]_vars

SpecRun == InitRun /\ [][NextRun]_vars

Init == SealOff(OneDraw) /\ OAuthInit /\ ChatOff /\ AppOff

Spec == Init /\ [][NextOAuth]_vars

====
